---- MODULE Spec2Model ----
(***************************************************************************)
(* Model of src/server.mjs: an Express service that authenticates a       *)
(* request, normalizes an order, has it signed by the CLOB client and,    *)
(* on /place, relays the signed order to a worker.                        *)
(*                                                                         *)
(* JavaScript runs each handler to its next `await` without interruption, *)
(* so one action is one such run: the arrival of a request up to the       *)
(* first await (createOrder), the resumption after createOrder up to the  *)
(* second await (postViaWorker), and the resumption after postViaWorker.  *)
(* Requests suspended at an await are held in `inflight`; a finished      *)
(* exchange (the request, the stages that ran for it and the response     *)
(* sent) is published in `last`, as a client or a test observes it.       *)
(***************************************************************************)
EXTENDS Integers, Sequences, FiniteSets, Bags, TLC

VARIABLES
    phase,      \* "boot" | "serving" | "exited": main() and process.exit
    env,        \* process.env, read at startup and by the handlers
    inflight,   \* bag of the requests suspended at an await
    last,       \* the last finished exchange: request, stages, response
    aHeader,    \* Auth Gate as a function: the Authorization header given
    aSecret,    \* Auth Gate as a function: process.env.SIGNER_TOKEN
    aResult,    \* Auth Gate as a function: "none" | "next" | "401"
    nBody,      \* Normalizer as a function: the raw body given
    nResult     \* Normalizer as a function: what validateOrderInput did

vars == <<phase, env, inflight, last, aHeader, aSecret, aResult, nBody, nResult>>

(***************************************************************************)
(* Bounds                                                                  *)
(***************************************************************************)
\* requests that may be suspended at an await at the same time
MaxInFlight == 2

(***************************************************************************)
(* Strings that the code slices are sequences of characters.               *)
(***************************************************************************)
BearerPrefix == <<"B", "e", "a", "r", "e", "r", " ">>

S1 == <<"s", "1">>

S2 == <<"s", "2">>

StartsWith(h, p) == Len(h) >= Len(p) /\ SubSeq(h, 1, Len(p)) = p

\* String.prototype.slice(n): the characters from index n (0-based) on.
Slice(h, n) == SubSeq(h, n + 1, Len(h))

\* An environment variable or a header: set/present with a value, or not.
Unset == [set |-> FALSE, val |-> <<>>]

Val(v) == [set |-> TRUE, val |-> v]

\* `x || ""` for a header or variable that may be undefined.
OrEmpty(x) == IF x.set THEN x.val ELSE <<>>

\* `!process.env[name]`: undefined or the empty string.
Falsy(x) == ~x.set \/ x.val = <<>>

(***************************************************************************)
(* requireEnv / assertPrivateKey (startup)                                 *)
(***************************************************************************)
KeyHexLen == 64

\* A private key is described by what the regular expression looks at.
Key(prefix, n, hex) == [set |-> TRUE, val |-> <<prefix, n, hex>>]

\* /^0x[0-9a-fA-F]{64}$/.test(pk)
PrivateKeyOk(pk) ==
    /\ pk.val[1] = "0x"
    /\ pk.val[2] = KeyHexLen
    /\ pk.val[3] = "hex"

\* TRUE when requireEnv(name) throws
requireEnvThrows(v) == Falsy(v)

\* main() without the assertPrivateKey call of line 88
MainThrowsNoKeyCheck(e) ==
    \/ requireEnvThrows(e.PRIVATE_KEY)
    \/ requireEnvThrows(e.SIGNER_TOKEN)

\* TRUE when main() throws before app.listen
MainThrows(e) ==
    \/ requireEnvThrows(e.PRIVATE_KEY)
    \/ requireEnvThrows(e.SIGNER_TOKEN)
    \/ ~PrivateKeyOk(e.PRIVATE_KEY)

(***************************************************************************)
(* authMiddleware                                                          *)
(***************************************************************************)
\* const header = req.header("Authorization") || "";
\* const token = header.startsWith("Bearer ") ? header.slice(7) : "";
BearerToken(hdr) ==
    LET header == OrEmpty(hdr)
    IN  IF StartsWith(header, BearerPrefix) THEN Slice(header, 7) ELSE <<>>

\* token !== process.env.SIGNER_TOKEN (undefined is unequal to every string)
TokenDiffers(token, secret) == ~secret.set \/ token # secret.val

\* FALSE: res.status(401).json(...); TRUE: next()
authMiddlewareNoEmptyCheck(hdr, secret) == ~TokenDiffers(BearerToken(hdr), secret)

authMiddleware(hdr, secret) ==
    LET token == BearerToken(hdr)
    IN  ~(token = <<>> \/ TokenDiffers(token, secret))

(***************************************************************************)
(* JavaScript values of a JSON body, with the coercions the code applies.  *)
(* A number is carried as its canonical decimal text, which is what       *)
(* String(n) yields.                                                       *)
(***************************************************************************)
Undef == [t |-> "undefined", v |-> "undefined"]

Null == [t |-> "null", v |-> "null"]

Str(s) == [t |-> "string", v |-> s]

Num(s) == [t |-> "number", v |-> s]

Bool(s) == [t |-> "boolean", v |-> s]

\* an array or a plain object, carried as the text String(x) yields:
\* String([]) is "", String({}) is "[object Object]"
Object(s) == [t |-> "object", v |-> s]

EmptyArray == Object("")

PlainObject == Object("[object Object]")

\* ToBoolean
Truthy(x) ==
    CASE x.t = "undefined" -> FALSE
      [] x.t = "null" -> FALSE
      [] x.t = "string" -> x.v # ""
      [] x.t = "number" -> x.v \notin {"0", "NaN"}
      [] x.t = "boolean" -> x.v = "true"
      [] x.t = "object" -> TRUE

\* String(x)
JSString(x) == Str(x.v)

\* Number(s) for the strings of the model
ParseNumber(s) ==
    CASE s = "" -> "0"
      [] s \in {"0", "1", "10", "0.5", "1700000000", "Infinity"} -> s
      [] OTHER -> "NaN"

\* Number(x)
JSNumber(x) ==
    CASE x.t = "undefined" -> Num("NaN")
      [] x.t = "null" -> Num("0")
      [] x.t = "string" -> Num(ParseNumber(x.v))
      [] x.t = "number" -> x
      [] x.t = "boolean" -> Num(IF x.v = "true" THEN "1" ELSE "0")
      [] x.t = "object" -> Num(ParseNumber(x.v))

\* Number.isFinite(n)
IsFinite(n) == n.v \notin {"NaN", "Infinity", "-Infinity"}

\* String.prototype.toUpperCase for the strings of the model
ToUpperCase(s) ==
    CASE s \in {"buy", "Buy"} -> "BUY"
      [] s \in {"sell", "Sell"} -> "SELL"
      [] s = "hold" -> "HOLD"
      [] s = "true" -> "TRUE"
      [] s = "Infinity" -> "INFINITY"
      [] s = "t1" -> "T1"
      [] s = "false" -> "FALSE"
      [] s = "null" -> "NULL"
      [] s = "[object Object]" -> "[OBJECT OBJECT]"
      [] OTHER -> s

(***************************************************************************)
(* validateOrderInput                                                      *)
(***************************************************************************)
Fields == {"tokenID", "price", "size", "side", "feeRateBps", "expiration", "nonce"}

\* An object: a key that is not there reads as undefined.
Obj(f) == [kind |-> "object", f |-> f]

EmptyObj == [k \in Fields |-> Undef]

\* req.body when no body was parsed
AbsentBody == [kind |-> "absent", f |-> EmptyObj]

\* a body express.json() rejects (a JSON content type, not JSON text)
MalformedBody == [kind |-> "malformed", f |-> EmptyObj]

\* body?.key
OptGet(body, k) == IF body.kind = "object" THEN body.f[k] ELSE Undef

\* the messages of lines 34-36, in order
RequiredErrors(body) ==
    (IF ~Truthy(OptGet(body, "tokenID")) THEN <<"tokenID is required">> ELSE <<>>)
    \o (IF OptGet(body, "price") = Undef THEN <<"price is required">> ELSE <<>>)
    \o (IF OptGet(body, "size") = Undef THEN <<"size is required">> ELSE <<>>)

\* out.side = String(body.side || "BUY").toUpperCase()
NormalSide(side) ==
    Str(ToUpperCase(JSString(IF Truthy(side) THEN side ELSE Str("BUY")).v))

SideErrors(side) ==
    IF NormalSide(side).v \notin {"BUY", "SELL"}
    THEN <<"side must be BUY or SELL">> ELSE <<>>

ExpirationErrors(e) ==
    IF e # Undef /\ ~IsFinite(JSNumber(e))
    THEN <<"expiration must be unix seconds (number)">> ELSE <<>>

\* `out` when lines 52 and 55 assign without their conditions
NormalOrderAssignsAll(b) ==
    [k \in Fields |->
        CASE k = "tokenID" -> JSString(b["tokenID"])
          [] k = "price" -> JSString(b["price"])
          [] k = "size" -> JSString(b["size"])
          [] k = "side" -> NormalSide(b["side"])
          [] k = "feeRateBps" ->
                IF Truthy(b["feeRateBps"]) THEN JSString(b["feeRateBps"]) ELSE Str("0")
          [] k = "expiration" ->
                IF b["expiration"] # Undef THEN JSNumber(b["expiration"]) ELSE Undef
          [] k = "nonce" -> JSString(b["nonce"])]

\* the object `out` at line 57; a key that was never set is Undef
NormalOrder(b) ==
    [k \in Fields |->
        CASE k = "tokenID" -> JSString(b["tokenID"])
          [] k = "price" -> JSString(b["price"])
          [] k = "size" -> JSString(b["size"])
          [] k = "side" -> NormalSide(b["side"])
          [] k = "feeRateBps" ->
                IF b["feeRateBps"] # Undef THEN JSString(b["feeRateBps"]) ELSE Str("0")
          [] k = "expiration" ->
                IF b["expiration"] # Undef /\ IsFinite(JSNumber(b["expiration"]))
                THEN JSNumber(b["expiration"]) ELSE Undef
          [] k = "nonce" ->
                IF b["nonce"] # Undef THEN JSString(b["nonce"]) ELSE Undef]

\* body.tokenID at line 38 throws a TypeError when body is undefined
validateOrderInput(body) ==
    IF body.kind # "object"
    THEN [threw |-> TRUE,
          errors |-> RequiredErrors(body),
          order |-> EmptyObj]
    ELSE [threw |-> FALSE,
          errors |-> RequiredErrors(body) \o SideErrors(body.f["side"])
                        \o ExpirationErrors(body.f["expiration"]),
          order |-> NormalOrder(body.f)]

(***************************************************************************)
(* Configuration read at module load                                       *)
(***************************************************************************)
HOST == "https://clob.polymarket.com"

CHAIN_ID == 137

(***************************************************************************)
(* Responses.  One record shape for every response; a key that a JSON     *)
(* body does not have is "" (or <<>>, 0).                                 *)
(***************************************************************************)
NoResp ==
    [status |-> 0, ctype |-> "", kind |-> "none", ok |-> "none", error |-> "",
     errors |-> <<>>, details |-> "", signedOrder |-> "", text |-> "",
     host |-> "", chainId |-> 0]

\* res.status(status).json({...})
Json(status, ok) ==
    [NoResp EXCEPT !.status = status, !.ctype = "application/json",
                   !.kind = "json", !.ok = ok]

UnauthorizedBare == Json(401, "false")

\* line 24
Unauthorized == [Json(401, "false") EXCEPT !.error = "Unauthorized"]

\* line 96
Health == [Json(200, "true") EXCEPT !.host = HOST, !.chainId = CHAIN_ID]

InvalidInputNoList(errors) == [Json(400, "false") EXCEPT !.error = "Invalid input"]

\* lines 110 and 123
InvalidInput(errors) ==
    [Json(400, "false") EXCEPT !.error = "Invalid input", !.errors = errors]

\* line 113
SignOk(signedOrder) == [Json(200, "true") EXCEPT !.signedOrder = signedOrder]

\* line 115
SignFailed(e) == [Json(500, "false") EXCEPT !.error = "Sign failed", !.details = e]

\* line 143
PlaceFailed(e) == [Json(500, "false") EXCEPT !.error = "Place failed", !.details = e]

\* lines 129-133
Misconfigured(signedOrder) ==
    [Json(400, "false") EXCEPT
        !.error = "WORKER_URL/WORKER_TOKEN not configured on signer",
        !.signedOrder = signedOrder]

\* lines 139-141: res.status(..); res.setHeader("Content-Type", ..); res.send(..)
Raw(result) ==
    [NoResp EXCEPT !.status = result.status, !.ctype = result.contentType,
                   !.kind = "raw", !.text = result.body]

\* Express answers by itself when a middleware fails (the JSON parser of
\* line 92) or when no route matches: an HTML page, not a JSON envelope.
FrameworkPage(status) ==
    [NoResp EXCEPT !.status = status, !.ctype = "text/html", !.kind = "html",
                   !.text = "<pre>...</pre>"]

\* the status the JSON parser fails with; 0 when it accepts the body
JsonParserStatus(body) ==
    IF body.kind = "malformed" THEN 400 ELSE 0

(***************************************************************************)
(* Faults, as String(e) shows them                                         *)
(***************************************************************************)
BodyTypeError == "TypeError: Cannot read properties of undefined (reading 'tokenID')"

SignerError == "Error: signing failed"

TransportError == "TypeError: fetch failed"

(***************************************************************************)
(* postViaWorker                                                           *)
(***************************************************************************)
NoHeader == [set |-> FALSE, val |-> ""]

Header(v) == [set |-> TRUE, val |-> v]

ContentTypeNoDefault(h) == h.val

\* resp.headers.get("Content-Type") || "text/plain"
ContentTypeOf(h) == IF h.set /\ h.val # "" THEN h.val ELSE "text/plain"

\* what fetch() is given: the envelope and the worker's credential
NoEnvelope == [path |-> "", method |-> "", body |-> "", auth |-> <<>>]

Envelope(signedOrder, e) ==
    [path |-> "/order", method |-> "POST", body |-> signedOrder,
     auth |-> BearerPrefix \o e.WORKER_TOKEN.val]

\* the downstream response as fetch() and resp.text() deliver it
NoDownstream == [status |-> 0, body |-> "", ct |-> NoHeader]

\* line 82
RelayResult(d) ==
    [status |-> d.status, body |-> d.body, contentType |-> ContentTypeOf(d.ct)]

\* line 128
WorkerMissing(e) == Falsy(e.WORKER_URL) \/ Falsy(e.WORKER_TOKEN)

(***************************************************************************)
(* An exchange: one request, the stages that ran for it, what the         *)
(* collaborators were given and answered, and the response.               *)
(***************************************************************************)
Idle ==
    [pc |-> "idle", route |-> "", header |-> Unset, body |-> AbsentBody,
     log |-> <<>>, order |-> EmptyObj, signed |-> "", sent |-> NoEnvelope,
     got |-> NoDownstream, resp |-> NoResp, nresp |-> 0]

NewExchange(route, header, body) ==
    [Idle EXCEPT !.pc = "new", !.route = route, !.header = header, !.body = body]

\* a stage ran
Ran(x, stage) == [x EXCEPT !.log = Append(@, stage)]

\* res.json / res.send: the response goes out and the handler returns
Respond(x, r) == [x EXCEPT !.pc = "done", !.resp = r, !.nresp = @ + 1]

CatchMissing(x, e) == [x EXCEPT !.pc = "done"]

\* the catch block of the route's handler (lines 114-116, 142-144)
CatchSign(x, e) == Respond(x, SignFailed(e))

CatchPlace(x, e) == Respond(x, PlaceFailed(e))

Catch(x, e) == IF x.route = "POST /sign" THEN CatchSign(x, e) ELSE CatchPlace(x, e)

HandlerEntrySpeculative(x) ==
    LET v == validateOrderInput(x.body)
        y == Ran(Ran(x, "sign"), "normalize")
    IN  IF v.threw THEN Catch(y, BodyTypeError)
        ELSE IF Len(v.errors) # 0 THEN Respond(y, InvalidInput(v.errors))
        ELSE [y EXCEPT !.pc = "signing", !.order = v.order]

\* lines 109-112 and 122-125: from the handler's entry to `await createOrder`
HandlerEntry(x) ==
    LET v == validateOrderInput(x.body)
        y == Ran(x, "normalize")
    IN  IF v.threw THEN Catch(y, BodyTypeError)
        ELSE IF Len(v.errors) # 0 THEN Respond(y, InvalidInput(v.errors))
        ELSE [Ran(y, "sign") EXCEPT !.pc = "signing", !.order = v.order]

\* lines 92-100 and the routes: the middleware chain for an arriving request
Dispatch(x, e) ==
    LET j == Ran(x, "json")
        a == Ran(j, "auth")
    IN  IF JsonParserStatus(x.body) # 0
        THEN Respond(j, FrameworkPage(JsonParserStatus(x.body)))
        ELSE IF x.route = "GET /health" THEN Respond(j, Health)
        ELSE IF ~authMiddleware(x.header, e.SIGNER_TOKEN) THEN Respond(a, Unauthorized)
        ELSE IF x.route \in {"POST /sign", "POST /place"} THEN HandlerEntry(a)
        ELSE Respond(a, FrameworkPage(404))

SignResumeRelays(x) ==
    [Ran(x, "relay") EXCEPT !.pc = "relaying", !.sent = Envelope(x.signed, env)]

\* line 113: /sign after createOrder resolved
SignResume(x) == Respond(x, SignOk(x.signed))

PlaceResumeNoCheck(x, e) ==
    IF requireEnvThrows(e.WORKER_URL) \/ requireEnvThrows(e.WORKER_TOKEN)
    THEN CatchPlace(x, "Error: Missing env var")
    ELSE [Ran(x, "relay") EXCEPT !.pc = "relaying", !.sent = Envelope(x.signed, e)]

\* /place when the signed order is kept in a variable all requests share:
\* it is the one of the request answered last
PlaceResumeSharedSigned(x, e) ==
    LET so == IF last.signed # "" THEN last.signed ELSE x.signed
    IN  IF WorkerMissing(e) THEN Respond(x, Misconfigured(so))
        ELSE IF requireEnvThrows(e.WORKER_URL) \/ requireEnvThrows(e.WORKER_TOKEN)
             THEN CatchPlace(x, "Error: Missing env var")
        ELSE [Ran(x, "relay") EXCEPT !.pc = "relaying", !.sent = Envelope(so, e)]

\* lines 127-136 and 61-79: /place after createOrder resolved, up to `await fetch`
PlaceResume(x, e) ==
    IF WorkerMissing(e) THEN Respond(x, Misconfigured(x.signed))
    ELSE IF requireEnvThrows(e.WORKER_URL) \/ requireEnvThrows(e.WORKER_TOKEN)
         THEN CatchPlace(x, "Error: Missing env var")
    ELSE [Ran(x, "relay") EXCEPT !.pc = "relaying", !.sent = Envelope(x.signed, e)]

\* /place submitting again when the Relay Target answered 5xx
RelayResumeRetries(x) ==
    IF x.got.status >= 500
    THEN [Ran(x, "relay") EXCEPT !.pc = "relaying"]
    ELSE Respond(x, Raw(RelayResult(x.got)))

\* lines 81-82 and 138-141: /place after fetch and resp.text() resolved
RelayResume(x) == Respond(x, Raw(RelayResult(x.got)))

(***************************************************************************)
(* Inputs                                                                  *)
(***************************************************************************)
Routes == {"GET /health", "POST /sign", "POST /place", "GET /other"}

GoodHeader == Val(BearerPrefix \o S1)

Headers == {Unset, GoodHeader, Val(BearerPrefix \o S2), Val(S1)}

MinimalBody ==
    Obj([EmptyObj EXCEPT !["tokenID"] = Str("t1"), !["price"] = Str("0.5"),
                         !["size"] = Str("10")])

FullBody ==
    Obj([EmptyObj EXCEPT !["tokenID"] = Str("t1"), !["price"] = Num("0"),
                         !["size"] = Num("10"), !["side"] = Str("sell"),
                         !["feeRateBps"] = Num("0"),
                         !["expiration"] = Str("1700000000"),
                         !["nonce"] = Num("1")])

HoldBody == Obj([MinimalBody.f EXCEPT !["side"] = Str("HOLD")])

Bodies ==
    {AbsentBody, MalformedBody, Obj(EmptyObj), MinimalBody, FullBody, HoldBody}

\* the requests that arrive; a GET carries no body, or one that is not JSON
Requests ==
    {r \in [route : Routes, header : Headers, body : Bodies] :
        r.route \in {"GET /health", "GET /other"} =>
            r.body \in {AbsentBody, MalformedBody}}

SignedOrders == {"sigA", "sigB"}

Downstream(status, body, ct) == [status |-> status, body |-> body, ct |-> ct]

Downstreams ==
    { Downstream(200, "{\"orderID\":\"1\"}", Header("application/json")),
      Downstream(400, "{\"error\":\"bad\"}", Header("application/json")),
      Downstream(503, "down", Header("text/plain")),
      Downstream(503, "down", NoHeader),
      Downstream(502, "", Header("")) }

WorkerUrl == <<"https://worker.example">>

WorkerToken == <<"w", "t">>

GoodKey == Key("0x", KeyHexLen, "hex")

\* the worker is configured, or lacks its URL, or has an empty credential
Envs ==
    {e \in [PRIVATE_KEY : {Unset, Val(<<>>), GoodKey, Key("0x", KeyHexLen - 1, "hex"),
                           Key("0x", KeyHexLen + 1, "hex"), Key("0X", KeyHexLen, "hex"),
                           Key("0x", KeyHexLen, "other"), Key("", KeyHexLen, "hex")},
            SIGNER_TOKEN : {Unset, Val(<<>>), Val(S1)},
            WORKER_URL : {Unset, Val(WorkerUrl)},
            WORKER_TOKEN : {Val(<<>>), Val(WorkerToken)}] :
        e.WORKER_URL.set \/ e.WORKER_TOKEN.val # <<>>}

(***************************************************************************)
(* The service                                                             *)
(***************************************************************************)
AuthUnused == aHeader = Unset /\ aSecret = Unset /\ aResult = "none"

\* validateOrderInput has not been called
NotRun == [ran |-> FALSE, threw |-> FALSE, errors |-> <<>>, order |-> EmptyObj]

NormUnused == nBody = AbsentBody /\ nResult = NotRun

Init ==
    /\ phase = "boot"
    /\ env \in Envs
    /\ inflight = EmptyBag
    /\ last = Idle
    /\ AuthUnused
    /\ NormUnused

\* main(): lines 85-91 and 147-154
Main ==
    /\ phase = "boot"
    /\ phase' = IF MainThrows(env) THEN "exited" ELSE "serving"
    /\ UNCHANGED <<env, inflight, last, aHeader, aSecret, aResult, nBody, nResult>>

\* the handler run that took `rest` (the other suspended requests) and this
\* request to x: x is published when it is finished, suspended otherwise
Moved(rest, x) ==
    IF x.pc = "done"
    THEN last' = x /\ inflight' = rest
    ELSE inflight' = rest (+) SetToBag({x}) /\ UNCHANGED last

\* where an arriving request gets to before the handler first yields, for
\* every request and under every configuration
Arrivals ==
    [e \in Envs |->
        {Dispatch(NewExchange(r.route, r.header, r.body), e) : r \in Requests}]

\* a request arrives and runs to its response or to its first await
Receive ==
    /\ phase = "serving"
    /\ \E x \in Arrivals[env] :
          /\ x.pc = "done" \/ BagCardinality(inflight) < MaxInFlight
          /\ Moved(inflight, x)
    /\ UNCHANGED <<phase, env, aHeader, aSecret, aResult, nBody, nResult>>

\* clobClient.createOrder(order) resolves for the suspended request w
SignerReturns(w) ==
    /\ BagIn(w, inflight)
    /\ w.pc = "signing"
    /\ \E so \in SignedOrders :
          LET x == [Ran(w, "signed") EXCEPT !.signed = so]
          IN  Moved(inflight (-) SetToBag({w}),
                    IF x.route = "POST /sign" THEN SignResume(x)
                    ELSE PlaceResume(x, env))
    /\ UNCHANGED <<phase, env, aHeader, aSecret, aResult, nBody, nResult>>

\* clobClient.createOrder(order) rejects
SignerThrows(w) ==
    /\ BagIn(w, inflight)
    /\ w.pc = "signing"
    /\ Moved(inflight (-) SetToBag({w}), Catch(Ran(w, "signfault"), SignerError))
    /\ UNCHANGED <<phase, env, aHeader, aSecret, aResult, nBody, nResult>>

\* fetch() and resp.text() resolve
RelayReturns(w) ==
    /\ BagIn(w, inflight)
    /\ w.pc = "relaying"
    /\ \E d \in Downstreams :
          Moved(inflight (-) SetToBag({w}),
                RelayResume([Ran(w, "relayed") EXCEPT !.got = d]))
    /\ UNCHANGED <<phase, env, aHeader, aSecret, aResult, nBody, nResult>>

\* fetch() or resp.text() rejects
RelayThrows(w) ==
    /\ BagIn(w, inflight)
    /\ w.pc = "relaying"
    /\ Moved(inflight (-) SetToBag({w}),
             CatchPlace(Ran(w, "relayfault"), TransportError))
    /\ UNCHANGED <<phase, env, aHeader, aSecret, aResult, nBody, nResult>>

Next ==
    \/ Main
    \/ Receive
    \/ \E w \in BagToSet(inflight) : SignerReturns(w)
    \/ \E w \in BagToSet(inflight) : SignerThrows(w)
    \/ \E w \in BagToSet(inflight) : RelayReturns(w)
    \/ \E w \in BagToSet(inflight) : RelayThrows(w)

Spec == Init /\ [][Next]_vars

(***************************************************************************)
(* The Auth Gate as a function of the header and the configured secret     *)
(***************************************************************************)
AuthHeaders ==
    Headers \cup
    { Val(<<>>),
      Val(BearerPrefix),
      Val(<<"B", "e", "a", "r", "e", "r">>),
      Val(<<"B", "e", "a", "r", "e", "r">> \o S1),
      Val(<<"b", "e", "a", "r", "e", "r", " ">> \o S1),
      Val(<<"B", "E", "A", "R", "E", "R", " ">> \o S1),
      Val(<<"B", "a", "s", "i", "c", " ">> \o S1),
      Val(<<" ">> \o BearerPrefix \o S1),
      Val(BearerPrefix \o <<" ">> \o S1),
      Val(BearerPrefix \o S1 \o <<" ">>),
      Val(BearerPrefix \o <<"s">>),
      Val(BearerPrefix \o BearerPrefix \o S1) }

AuthSecrets == {Unset, Val(<<>>), Val(S1), Val(S2)}

ServingEnv ==
    [PRIVATE_KEY |-> GoodKey, SIGNER_TOKEN |-> Val(S1),
     WORKER_URL |-> Val(WorkerUrl), WORKER_TOKEN |-> Val(WorkerToken)]

AuthInit ==
    /\ phase = "serving"
    /\ env = ServingEnv
    /\ inflight = EmptyBag
    /\ last = Idle
    /\ aHeader \in AuthHeaders
    /\ aSecret \in AuthSecrets
    /\ aResult = "none"
    /\ NormUnused

\* the gate is applied to the header under the secret
AuthApply ==
    /\ aResult = "none"
    /\ aResult' = IF authMiddleware(aHeader, aSecret) THEN "next" ELSE "401"
    /\ UNCHANGED <<phase, env, inflight, last, aHeader, aSecret, nBody, nResult>>

AuthSpec == AuthInit /\ [][AuthApply]_vars

(***************************************************************************)
(* The Normalizer as a function of the raw body                            *)
(***************************************************************************)
\* what a JSON body can carry under each key (Undef: the key is not there),
\* and the body that was never parsed
NormBodies ==
    {AbsentBody} \cup
    {Obj(f) : f \in
        [tokenID : {Undef, Null, Str(""), Str("t1"), Num("0"), EmptyArray},
         price : {Undef, Null, Num("0"), Str("0.5")},
         size : {Undef, Num("10"), Bool("false")},
         side : {Undef, Null, Str(""), Str("sell"), Str("Buy"), Str("HOLD"),
                 Num("0"), EmptyArray},
         feeRateBps : {Undef, Num("0"), Str("")},
         expiration : {Undef, Null, Str("not-a-number"), Num("1700000000"),
                       Str("1700000000"), Str("Infinity"), PlainObject},
         nonce : {Undef, Num("0")}]}

NormInit ==
    /\ phase = "serving"
    /\ env = ServingEnv
    /\ inflight = EmptyBag
    /\ last = Idle
    /\ AuthUnused
    /\ nBody \in NormBodies
    /\ nResult = NotRun

\* validateOrderInput(nBody) is called: it returns or it throws
NormApply ==
    /\ ~nResult.ran
    /\ LET v == validateOrderInput(nBody)
       IN  nResult' = [ran |-> TRUE, threw |-> v.threw,
                       errors |-> v.errors, order |-> v.order]
    /\ UNCHANGED <<phase, env, inflight, last, aHeader, aSecret, aResult, nBody>>

NormSpec == NormInit /\ [][NormApply]_vars

(***************************************************************************)
(* Properties                                                              *)
(***************************************************************************)
\* every exchange there is: the suspended ones and the last finished one
Exchanges == BagToSet(inflight) \cup {last}

Finished(x) == x.pc = "done"

Has(x, stage) == \E i \in 1..Len(x.log) : x.log[i] = stage

\* stage a occurs in the log, and before every occurrence of stage b
Before(x, a, b) ==
    \A i \in 1..Len(x.log) :
        x.log[i] = b => \E j \in 1..(i - 1) : x.log[j] = a

Protected(x) == x.route \in {"POST /sign", "POST /place"}

\* no Authorization header, or a bearer token that is not the secret
BadCredential(x) ==
    ~x.header.set \/ BearerToken(x.header) # env.SIGNER_TOKEN.val

NoStageRan(x) ==
    ~Has(x, "normalize") /\ ~Has(x, "sign") /\ ~Has(x, "relay")

\* C1: every request to /sign or /place without the right credential is
\* answered 401 {ok:false, error:"Unauthorized"}, and the Normalizer, the
\* Signing Provider and the Relay Client never run for it.
C1_UnauthorizedAlways401 ==
    \A x \in Exchanges :
        (x.pc # "idle" /\ Protected(x) /\ BadCredential(x)) =>
            /\ Finished(x)
            /\ x.resp = Unauthorized
            /\ x.resp.status = 401
            /\ NoStageRan(x)

\* C2: the Auth Gate allows a request if and only if the header starts with
\* "Bearer ", the remainder is non-empty and the remainder equals the
\* configured secret; an empty token is rejected also under an empty or
\* unset secret.
C2_GateAllowsIff ==
    aResult # "none" =>
        ((aResult = "next") <=>
            /\ aHeader.set
            /\ StartsWith(aHeader.val, BearerPrefix)
            /\ Len(aHeader.val) > Len(BearerPrefix)
            /\ aSecret.set
            /\ SubSeq(aHeader.val, Len(BearerPrefix) + 1, Len(aHeader.val)) = aSecret.val)

C2_Witness ==
    /\ aResult = "401"
    /\ aHeader = Val(BearerPrefix)
    /\ aSecret = Val(<<>>)

\* C3: on /sign and /place, when normalization yields a non-empty error list
\* the request ends with 400 {ok:false, error:"Invalid input", errors} carrying
\* that list, and neither the Signing Provider nor the Relay Client is invoked.
C3_InvalidInputRejected ==
    \A x \in Exchanges :
        LET v == validateOrderInput(x.body)
        IN  (Protected(x) /\ Has(x, "normalize") /\ ~v.threw /\ Len(v.errors) > 0) =>
                /\ Finished(x)
                /\ x.resp.status = 400
                /\ x.resp.ok = "false"
                /\ x.resp.error = "Invalid input"
                /\ x.resp.errors = v.errors
                /\ ~Has(x, "sign") /\ ~Has(x, "relay")
                /\ x.sent = NoEnvelope

C3_Witness ==
    /\ Finished(last)
    /\ last.route = "POST /place"
    /\ last.body = HoldBody
    /\ last.resp.errors = <<"side must be BUY or SELL">>

\* C4: for one request normalization precedes signing, which precedes relay:
\* the Signing Provider is invoked only after normalization returned no
\* errors, the Relay Client only after the Signing Provider returned a Signed
\* Order for that request, and no stage starts twice or out of order.
C4_StagesInOrder ==
    \A x \in Exchanges :
        LET v == validateOrderInput(x.body)
        IN  /\ Before(x, "normalize", "sign")
            /\ Has(x, "sign") => (~v.threw /\ v.errors = <<>> /\ x.order = v.order)
            /\ Before(x, "sign", "signed")
            /\ Before(x, "signed", "relay")
            /\ Has(x, "relay") =>
                  (x.signed \in SignedOrders /\ x.sent.body = x.signed
                   /\ ~Has(x, "signfault"))
            /\ Before(x, "relay", "relayed")
            /\ x.pc = "signing" => Has(x, "sign")
            /\ x.pc = "relaying" => Has(x, "relay")
            /\ \A i, j \in 1..Len(x.log) : x.log[i] = x.log[j] => i = j

C4_Witness ==
    /\ Finished(last)
    /\ last.route = "POST /place"
    /\ last.log = <<"json", "auth", "normalize", "sign", "signed", "relay", "relayed">>

\* the Relay Client obtained a response for the finished /place request x
Relayed(x) == Finished(x) /\ x.route = "POST /place" /\ Has(x, "relayed")

\* status and body are the Relay Target's, and nothing of the envelope is set
PassedThrough(x) ==
    /\ x.resp.kind = "raw"
    /\ x.resp.status = x.got.status
    /\ x.resp.text = x.got.body
    /\ x.resp.ok = "none" /\ x.resp.error = "" /\ x.resp.signedOrder = ""

PlacedUnconfigured(x) ==
    /\ Finished(x)
    /\ x.route = "POST /place"
    /\ WorkerMissing(env)
    /\ Has(x, "normalize")
    /\ ~validateOrderInput(x.body).threw
    /\ validateOrderInput(x.body).errors = <<>>

\* what /sign does with the same request: the order it has signed, and the
\* response it gives when the Signing Provider returns the same value
SignTwin(x) == NewExchange("POST /sign", x.header, x.body)

SameAsSignOnly(x) ==
    /\ x.order = HandlerEntry(SignTwin(x)).order
    /\ x.resp.signedOrder =
          SignResume([HandlerEntry(SignTwin(x)) EXCEPT !.signed = x.signed]).resp.signedOrder

MisconfiguredOutcome(x) ==
    /\ x.resp.status = 400
    /\ x.resp.ok = "false"
    /\ x.resp.error = "WORKER_URL/WORKER_TOKEN not configured on signer"
    /\ x.resp.signedOrder = x.signed
    /\ x.signed \in SignedOrders
    /\ SameAsSignOnly(x)

\* C6 (as stated): without the relay URL or its credential, /place with a
\* valid body never fails as Sign-Failed or Place-Failed: it invokes the
\* Signing Provider, never contacts the Relay Target and returns the 400
\* Misconfigured outcome with the Signed Order /sign returns for that body.
C6_MisconfiguredNeverFails ==
    \A x \in Exchanges :
        PlacedUnconfigured(x) =>
            /\ x.resp.error \notin {"Sign failed", "Place failed"}
            /\ Has(x, "sign")
            /\ ~Has(x, "relay") /\ x.sent = NoEnvelope
            /\ MisconfiguredOutcome(x)

\* C6 (amended): without the relay URL or its credential, /place with a valid
\* body invokes the Signing Provider and never contacts the Relay Target;
\* when the Signing Provider returns a Signed Order the response is the 400
\* Misconfigured outcome embedding that value unmodified, the value /sign
\* returns for it; when the Signing Provider faults the response is a 500.
C6_MisconfiguredAfterSigning ==
    \A x \in Exchanges :
        PlacedUnconfigured(x) =>
            /\ Has(x, "sign")
            /\ ~Has(x, "relay") /\ x.sent = NoEnvelope
            /\ Has(x, "signed") => MisconfiguredOutcome(x)
            /\ ~Has(x, "signed") => (Has(x, "signfault") /\ x.resp.status = 500)

C6_Witness ==
    /\ PlacedUnconfigured(last)
    /\ last.body = MinimalBody
    /\ last.resp.signedOrder = "sigA"
    /\ last.resp.status = 400

\* C7: on /place a failure of the Signing Provider is reported as the
\* Sign-Failed outcome of /sign (500, "Sign failed", the stringified cause),
\* and Place-Failed is produced only by a Relay Client transport failure.
\* Stated for the requests that reached the Signing Provider.
C7_PlaceSignFailureIsSignFailed ==
    \A x \in Exchanges :
        (Finished(x) /\ x.route = "POST /place" /\ Has(x, "sign")) =>
            /\ Has(x, "signfault") => x.resp = SignFailed(SignerError)
            /\ x.resp.error = "Place failed" => Has(x, "relayfault")

\* C8: /sign never contacts the Relay Target, whatever the body and the relay
\* configuration; when signing succeeds it returns 200 {ok:true, signedOrder}
\* with the Signing Provider's value unmodified.
C8_SignOnlyNeverRelays ==
    \A x \in Exchanges :
        x.route = "POST /sign" =>
            /\ ~Has(x, "relay") /\ ~Has(x, "relayed") /\ ~Has(x, "relayfault")
            /\ x.pc # "relaying"
            /\ x.sent = NoEnvelope /\ x.got = NoDownstream
            /\ (Finished(x) /\ Has(x, "signed")) =>
                  /\ x.resp.status = 200
                  /\ x.resp.kind = "json"
                  /\ x.resp.ok = "true"
                  /\ x.resp.signedOrder = x.signed
                  /\ x.signed \in SignedOrders

C8_Witness ==
    /\ Finished(last)
    /\ last.route = "POST /sign"
    /\ ~WorkerMissing(env)
    /\ last.resp.status = 200
    /\ last.resp.signedOrder = "sigB"

\* the fault raised while x was handled, as String(e) shows it; "" for none
FaultOf(x) ==
    IF Has(x, "relayfault") THEN TransportError
    ELSE IF Has(x, "signfault") THEN SignerError
    ELSE IF Has(x, "normalize") /\ validateOrderInput(x.body).threw THEN BodyTypeError
    ELSE ""

\* faults end in a structured 500 outcome, and a request has no response
\* while it is suspended and exactly one when it is finished
C9_Safety ==
    \A x \in Exchanges :
        /\ (Finished(x) /\ FaultOf(x) # "") =>
              /\ x.resp.kind = "json"
              /\ x.resp.status = 500
              /\ x.resp.ok = "false"
              /\ x.resp.error \in {"Sign failed", "Place failed"}
              /\ x.resp.details = FaultOf(x)
        /\ Finished(x) => (x.nresp = 1 /\ x.resp # NoResp)
        /\ ~Finished(x) => (x.nresp = 0 /\ x.resp = NoResp)

\* y is the request w carried on: the same request, w's stages and more
Continues(w, y) ==
    /\ y.route = w.route /\ y.header = w.header /\ y.body = w.body
    /\ y.order = w.order
    /\ Len(y.log) > Len(w.log)
    /\ SubSeq(y.log, 1, Len(w.log)) = w.log

\* a suspended request waits for the Signing Provider or the Relay Target,
\* and the step that delivers the answer (or the fault) can be taken
C9_NeverStuck ==
    \A w \in BagToSet(inflight) :
        \/ w.pc = "signing" /\ ENABLED (SignerReturns(w) \/ SignerThrows(w))
        \/ w.pc = "relaying" /\ ENABLED (RelayReturns(w) \/ RelayThrows(w))

\* the step that resumes a suspended request w either finishes it with one
\* response or, from signing, suspends it once more at the relay
C9_StepsForward ==
    \/ inflight' = inflight
    \/ \A w \in BagToSet(inflight) :
           CopiesIn(w, inflight') < CopiesIn(w, inflight) =>
               \/ /\ Finished(last') /\ Continues(w, last') /\ last'.nresp = 1
                  /\ BagCardinality(inflight') = BagCardinality(inflight) - 1
               \/ /\ w.pc = "signing"
                  /\ UNCHANGED last
                  /\ BagCardinality(inflight') = BagCardinality(inflight)
                  /\ \E y \in BagToSet(inflight') :
                        /\ y.pc = "relaying" /\ Continues(w, y)
                        /\ CopiesIn(y, inflight') = CopiesIn(y, inflight) + 1

\* C9: every fault raised while an authenticated /sign or /place request is
\* handled is caught and turned into a structured outcome with the cause
\* stringified, and, the Signing Provider and the Relay Client answering
\* their calls, every request receives exactly one response: a request has
\* one response when it is finished and none before, it is never stuck, and
\* each answer takes it to its response in at most two steps.
C9_FaultsCaughtOneResponse ==
    /\ []C9_Safety
    /\ []C9_NeverStuck
    /\ [][C9_StepsForward]_vars

C9_Witness ==
    /\ Finished(last)
    /\ last.route = "POST /place"
    /\ Has(last, "relayfault")
    /\ last.resp = PlaceFailed(TransportError)

Present(v) == v.set /\ v.val # <<>>

\* both required variables are present and the key is "0x" followed by
\* exactly 64 hexadecimal digits
WellConfigured(e) ==
    /\ Present(e.PRIVATE_KEY)
    /\ Present(e.SIGNER_TOKEN)
    /\ e.PRIVATE_KEY.val = <<"0x", 64, "hex">>

NothingAnswered == inflight = EmptyBag /\ last = Idle

\* C11: the process serves requests only if PRIVATE_KEY and SIGNER_TOKEN are
\* both present and the key is 0x followed by exactly 64 hexadecimal digits;
\* otherwise startup ends in the fatal exit, the process stays exited, and no
\* route (GET /health included) ever answers a request.
C11_ServesOnlyWhenConfigured ==
    /\ [](phase = "serving" => WellConfigured(env))
    /\ [](phase = "exited" => ~WellConfigured(env))
    /\ [](phase # "serving" => NothingAnswered)
    /\ [][phase = "boot" =>
            phase' = IF WellConfigured(env) THEN "serving" ELSE "exited"]_vars
    /\ [][phase = "exited" => (phase' = "exited" /\ NothingAnswered')]_vars
    /\ [][env' = env]_vars

\* a key one digit short, with the secret present, ended in the fatal exit
C11_Witness ==
    /\ phase = "exited"
    /\ env.PRIVATE_KEY = Key("0x", KeyHexLen - 1, "hex")
    /\ Present(env.SIGNER_TOKEN)
    /\ NothingAnswered

(***************************************************************************)
(* Liveness probe                                                          *)
(***************************************************************************)
\* C12: GET /health is never subject to the Auth Gate: while the process is
\* serving, every request to it, with any Authorization header or none, is
\* answered 200 {ok:true, host, chainId}, and the Normalizer, the Signing
\* Provider and the Relay Client never run for it.
C12_HealthAlwaysAnswers ==
    \A x \in Exchanges :
        (x.pc # "idle" /\ x.route = "GET /health") =>
            /\ Finished(x)
            /\ ~Has(x, "auth")
            /\ NoStageRan(x)
            /\ x.resp.status = 200
            /\ x.resp.kind = "json"
            /\ x.resp.ok = "true"
            /\ x.resp.host = HOST
            /\ x.resp.chainId = CHAIN_ID

(***************************************************************************)
(* Normalization rules                                                     *)
(***************************************************************************)
\* the value the raw input carries under key k; Undef when the key, or the
\* whole body, is missing
Given(k) == nBody.f[k]

\* undefined, null, "", 0, NaN and false
IsFalsy(x) ==
    x \in {Undef, Null, Str(""), Num("0"), Num("NaN"), Bool("false")}

\* validateOrderInput returned, and msg is in the error list it returned
Reports(msg) ==
    /\ ~nResult.threw
    /\ \E i \in 1..Len(nResult.errors) : nResult.errors[i] = msg

\* the required-field rule, on what was returned
RequiredRule ==
    /\ Reports("tokenID is required") <=> IsFalsy(Given("tokenID"))
    /\ Reports("price is required") <=> Given("price") = Undef
    /\ Reports("size is required") <=> Given("size") = Undef
    /\ Given("price") # Undef => nResult.order["price"] = Str(Given("price").v)
    /\ Given("size") # Undef => nResult.order["size"] = Str(Given("size").v)

\* C13: for every input, normalization reports "tokenID is required" exactly
\* when tokenID is missing or falsy, and "price is required" / "size is
\* required" exactly when that key is undefined; a present but falsy price
\* or size is accepted without that error and coerced to its string form.
C13_RequiredReported ==
    nResult.ran => RequiredRule

\* the upper-cased string form of the supplied side, "BUY" when the input
\* has no side
UpperSide ==
    IF Given("side") = Undef THEN "BUY" ELSE ToUpperCase(Given("side").v)

SideRule ==
    /\ ~nResult.threw
    /\ nResult.order["side"] = Str(UpperSide)
    /\ Reports("side must be BUY or SELL") <=> UpperSide \notin {"BUY", "SELL"}

\* C14: for every input, the normalized side is the upper-cased string form
\* of the supplied side, or "BUY" when side is omitted; "side must be BUY or
\* SELL" is recorded exactly when that value is neither "BUY" nor "SELL",
\* and the invalid value is then still order.side of the returned object.
C14_SideUpperCased ==
    nResult.ran => SideRule

\* key k is a key of the returned order
HasKey(k) == nResult.order[k] # Undef

ExpirationMessage == "expiration must be unix seconds (number)"

OptionalRule ==
    /\ HasKey("expiration") <=>
          (Given("expiration") # Undef /\ IsFinite(JSNumber(Given("expiration"))))
    /\ HasKey("expiration") =>
          (nResult.order["expiration"] = JSNumber(Given("expiration"))
           /\ ~Reports(ExpirationMessage))
    /\ (Given("expiration") # Undef /\ ~HasKey("expiration")) =>
          Reports(ExpirationMessage)
    /\ Given("expiration") = Undef => ~Reports(ExpirationMessage)
    /\ HasKey("nonce") <=> Given("nonce") # Undef
    /\ HasKey("nonce") => nResult.order["nonce"] = Str(Given("nonce").v)
    /\ nResult.order["feeRateBps"] =
          (IF Given("feeRateBps") # Undef
           THEN Str(Given("feeRateBps").v) ELSE Str("0"))

\* C15: in every normalized order the absent optional fields are not keys:
\* expiration is a key exactly when it was supplied and coerces to a finite
\* number (a non-finite value records the expiration message and the key is
\* omitted), nonce is a key exactly when it was supplied, and feeRateBps is
\* the string form of the supplied value, even a falsy one, or "0".
C15_OptionalKeys ==
    (nResult.ran /\ ~nResult.threw) => OptionalRule

\* a non-numeric expiration, no nonce and an empty feeRateBps were normalized
C15_Witness ==
    /\ nResult.ran
    /\ ~nResult.threw
    /\ Given("expiration") = Str("not-a-number")
    /\ Given("nonce") = Undef
    /\ Given("feeRateBps") = Str("")
    /\ ~HasKey("expiration")
    /\ ~HasKey("nonce")
    /\ nResult.order["feeRateBps"] = Str("")
    /\ Reports(ExpirationMessage)

\* the raw body of x has no tokenID, no price or no size
LacksRequired(x) ==
    \E k \in {"tokenID", "price", "size"} : x.body.f[k] = Undef

\* C16: normalization is total: for any raw body, an absent (undefined) one
\* included, it returns its error list and best-effort order and raises no
\* fault, so a request whose body lacks a required field always ends as
\* Invalid input (400), with the messages, and never as a 500.
C16_NormalizationTotal ==
    \A x \in Exchanges :
        (Has(x, "normalize") /\ LacksRequired(x)) =>
            /\ Finished(x)
            /\ x.resp.status = 400
            /\ x.resp.error = "Invalid input"
            /\ Len(x.resp.errors) > 0
            /\ ~Has(x, "sign")

\* <<msg>> when the rule is violated, nothing otherwise
When(violated, msg) == IF violated THEN <<msg>> ELSE <<>>

\* one message for each rule the input violates, in the rules' order
ViolatedRules ==
    When(IsFalsy(Given("tokenID")), "tokenID is required")
    \o When(Given("price") = Undef, "price is required")
    \o When(Given("size") = Undef, "size is required")
    \o When(nResult.order["side"].v \notin {"BUY", "SELL"}, "side must be BUY or SELL")
    \o When(Given("expiration") # Undef /\ ~IsFinite(JSNumber(Given("expiration"))),
            ExpirationMessage)

\* C17: the rules are independent and never short-circuit: for every input
\* the returned error list holds one message for each rule the input
\* violates and nothing else, in the order tokenID, price, size, side,
\* expiration.
C17_OneMessagePerRule ==
    nResult.ran => (~nResult.threw /\ nResult.errors = ViolatedRules)

\* C18: every order handed to the Signing Provider has a non-empty string
\* tokenID: for any request body, if normalization returns no errors then
\* the coerced order.tokenID is not the empty string.
C18_TokenIdNonEmpty ==
    (nResult.ran /\ ~nResult.threw /\ Len(nResult.errors) = 0) =>
        /\ nResult.order["tokenID"].t = "string"
        /\ nResult.order["tokenID"].v # ""

(***************************************************************************)
(* Calls to the collaborators                                              *)
(***************************************************************************)
\* how many times the stage was entered for x
Times(x, stage) == Cardinality({i \in 1..Len(x.log) : x.log[i] = stage})


\* C19: the service never retries or duplicates a call: for any single
\* request the Signing Provider is invoked at most once and the Relay Target
\* receives at most one submission, whatever status or fault the downstream
\* call ends in (a fault or an answer of the relay ends the request).
C19_AtMostOneCallEach ==
    \A x \in Exchanges :
        /\ Times(x, "sign") <= 1
        /\ Times(x, "relay") <= 1
        /\ Times(x, "signed") + Times(x, "signfault") <= Times(x, "sign")
        /\ Times(x, "relayed") + Times(x, "relayfault") <= Times(x, "relay")
        /\ (Has(x, "signfault") \/ Has(x, "relayed") \/ Has(x, "relayfault"))
              => Finished(x)

\* a /place request whose one submission the Relay Target answered 503, and
\* which was answered after one signing and one submission
C19_Witness ==
    /\ Finished(last)
    /\ last.route = "POST /place"
    /\ last.got.status = 503
    /\ last.resp.status = 503
    /\ Times(last, "sign") = 1
    /\ Times(last, "relay") = 1

(***************************************************************************)
(* Concurrent requests                                                     *)
(***************************************************************************)
\* the exchange that the request of x comes to when it is handled with no
\* other request around and the collaborators give it the answers x got
Alone(x) ==
    LET a == Dispatch(NewExchange(x.route, x.header, x.body), env)
        s == IF a.pc # "signing" THEN a
             ELSE IF Has(x, "signfault") THEN Catch(Ran(a, "signfault"), SignerError)
             ELSE IF Has(x, "signed")
                  THEN LET y == [Ran(a, "signed") EXCEPT !.signed = x.signed]
                       IN  IF x.route = "POST /sign" THEN SignResume(y)
                           ELSE PlaceResume(y, env)
             ELSE a
    IN  IF s.pc # "relaying" THEN s
        ELSE IF Has(x, "relayfault")
             THEN CatchPlace(Ran(s, "relayfault"), TransportError)
        ELSE IF Has(x, "relayed")
             THEN RelayResume([Ran(s, "relayed") EXCEPT !.got = x.got])
        ELSE s

\* what x holds and answers comes from its own body, the configuration and
\* the answers given for x
OwnData(x) ==
    /\ Has(x, "sign") => x.order = validateOrderInput(x.body).order
    /\ Has(x, "relay") => x.sent = Envelope(x.signed, env)
    /\ (Finished(x) /\ x.resp.signedOrder # "") => x.resp.signedOrder = x.signed
    /\ (Finished(x) /\ Has(x, "relayed")) =>
          /\ x.resp.status = x.got.status
          /\ x.resp.text = x.got.body
    /\ (Finished(x) /\ x.resp.errors # <<>>) =>
          x.resp.errors = validateOrderInput(x.body).errors
    /\ x = Alone(x)

\* a step takes at most one suspended request out of the bag, and one copy
\* of it: every other suspended request is left as it was
OthersUntouched ==
    LET moved == {w \in BagToSet(inflight) :
                    CopiesIn(w, inflight') < CopiesIn(w, inflight)}
    IN  /\ Cardinality(moved) <= 1
        /\ \A w \in moved : CopiesIn(w, inflight') = CopiesIn(w, inflight) - 1

\* C20: requests are independent under any interleaving: the response of
\* each request, and the Signed Order in its relay envelope, are determined
\* by its own body, the configuration and the answers given for that
\* request; no request returns or relays the Signed Order or the Relay
\* Response of another, and resuming one request leaves the others alone.
C20_RequestsIndependent ==
    /\ [](\A x \in Exchanges : x.pc # "idle" => OwnData(x))
    /\ [][inflight' = inflight \/ OthersUntouched]_vars

\* a /place request is suspended at the relay with its own signed order in
\* the envelope while another request, signed differently, was answered
C20_Witness ==
    /\ Finished(last)
    /\ last.signed # ""
    /\ last.resp.signedOrder = last.signed
    /\ \E w \in BagToSet(inflight) :
          /\ w.pc = "relaying"
          /\ w.signed # last.signed
          /\ w.sent.body = w.signed
    /\ \E w \in BagToSet(inflight) : w.pc = "signing"

====
